---- MODULE Spec2Model ----
(***************************************************************************)
(* Search and indexing subsystem of gameplan.                              *)
(*                                                                         *)
(*   src/gameplan/api.py                            search (392-466),      *)
(*                                                  search_sqlite (478-491)*)
(*                                                  get_search_filter_     *)
(*                                                  options (494-500)      *)
(*   src/gameplan/gameplan/doctype/gp_task/gp_task.py   GPTask hooks       *)
(*                                                                         *)
(* The GameplanSearch classes (gameplan.search, gameplan.search_sqlite)    *)
(* are not part of the sources at hand; their behaviour is taken from      *)
(* spec.md sections 4.1-4.3 and 7.                                         *)
(*                                                                         *)
(* Text is a sequence of one-character strings.  Timestamps are not kept:  *)
(* the index is a sequence held in descending order of `modified`, that    *)
(* is, most recently indexed entry first.                                  *)
(***************************************************************************)
EXTENDS Integers, Sequences, FiniteSets, TLC

(***************************************************************************)
(* Bounds of the model.                                                    *)
(***************************************************************************)
\* longest raw query of a request in SpecNorm
MaxQueryLen == 4
\* most entries of the index in SpecAgg
MaxHits == 3
\* most comments ever posted in Spec
MaxComments == 1
\* most inserts of a task, finished or in flight, in SpecIds
MaxInserts == 3

(***************************************************************************)
(* Python string helpers used by api.search.                               *)
(***************************************************************************)
RECURSIVE SplitAcc(_, _, _)
SplitAcc(s, cur, acc) ==
    IF s = <<>> THEN Append(acc, cur)
    ELSE IF Head(s) = " " THEN SplitAcc(Tail(s), <<>>, Append(acc, cur))
    ELSE SplitAcc(Tail(s), Append(cur, Head(s)), acc)

\* str.split(" "): every single space separates, empty pieces are kept
split(s) == SplitAcc(s, <<>>, <<>>)

RECURSIVE join(_)
\* " ".join(parts)
join(parts) ==
    IF parts = <<>> THEN <<>>
    ELSE IF Len(parts) = 1 THEN parts[1]
    ELSE parts[1] \o <<" ">> \o join(Tail(parts))

\* str.endswith(c) for a one-character suffix
endswith(s, c) == Len(s) > 0 /\ s[Len(s)] = c

startswith(s, p) == Len(s) >= Len(p) /\ SubSeq(s, 1, Len(p)) = p

IsSubstring(t, s) ==
    \E i \in 1..(Len(s) + 1) :
        i + Len(t) - 1 <= Len(s) /\ SubSeq(s, i, i + Len(t) - 1) = t

(***************************************************************************)
(* Query Normalizer, spec.md 4.2 (GameplanSearch.clean_query).             *)
(***************************************************************************)
\* characters of the backend's query syntax that are stripped from user input
Reserved == {"@"}

StripReserved(s) == SelectSeq(s, LAMBDA c : c \notin Reserved)

RECURSIVE CollapseSpaces(_)
CollapseSpaces(s) ==
    IF Len(s) < 2 THEN s
    ELSE IF s[1] = " " /\ s[2] = " " THEN CollapseSpaces(Tail(s))
    ELSE <<s[1]>> \o CollapseSpaces(Tail(s))

RECURSIVE TrimLeft(_)
TrimLeft(s) == IF s # <<>> /\ Head(s) = " " THEN TrimLeft(Tail(s)) ELSE s

RECURSIVE TrimRight(_)
TrimRight(s) ==
    IF s # <<>> /\ s[Len(s)] = " " THEN TrimRight(SubSeq(s, 1, Len(s) - 1)) ELSE s

clean_query(raw) == TrimRight(TrimLeft(CollapseSpaces(StripReserved(raw))))

\* the "empty query" marker of spec.md 4.2
EmptyMarker == <<>>

(***************************************************************************)
(* api.search, lines 399-403: the wildcard policy.                         *)
(***************************************************************************)
Wrap(q) == <<"%", "%">> \o q \o <<"%", "%">>

BuildQueryNoStarCheck(query) ==
    LET query_parts == split(query) IN
    IF Len(query_parts) = 1 THEN query_parts[1] \o <<"*">>
    ELSE join([i \in 1..Len(query_parts) |-> Wrap(query_parts[i])])

BuildQueryWrapFirstOnly(query) ==
    LET query_parts == split(query) IN
    IF Len(query_parts) = 1 /\ ~endswith(query_parts[1], "*")
    THEN query_parts[1] \o <<"*">>
    ELSE IF Len(query_parts) > 1
    THEN join([i \in 1..Len(query_parts) |->
                 IF i = 1 THEN Wrap(query_parts[i]) ELSE query_parts[i]])
    ELSE query

BuildQuery(query) ==
    LET query_parts == split(query) IN
    IF Len(query_parts) = 1 /\ ~endswith(query_parts[1], "*")
    THEN query_parts[1] \o <<"*">>
    ELSE IF Len(query_parts) > 1
    THEN join([i \in 1..Len(query_parts) |-> Wrap(query_parts[i])])
    ELSE query

\* "@title|content:("
FieldScope ==
    <<"@", "t", "i", "t", "l", "e", "|", "c", "o", "n", "t", "e", "n", "t", ":", "(">>

\* api.search line 406: f"@title|content:({query})"
SearchExpr(query) == FieldScope \o query \o <<")">>

(***************************************************************************)
(* Index backend, spec.md 3 and 4.3: how a query expression is matched.    *)
(***************************************************************************)
\* the text between "@title|content:(" and ")"
ExprBody(expr) == SubSeq(expr, Len(FieldScope) + 1, Len(expr) - 1)

\* the fields an expression is scoped to
ExprFields(expr) ==
    IF startswith(expr, FieldScope) THEN {"title", "content"} ELSE {}

IsWrapped(term) ==
    /\ Len(term) >= 4
    /\ SubSeq(term, 1, 2) = <<"%", "%">>
    /\ SubSeq(term, Len(term) - 1, Len(term)) = <<"%", "%">>

Words(text) == {w \in {split(text)[i] : i \in 1..Len(split(text))} : w # <<>>}

\* one term against one field's text
TermMatchesText(term, text) ==
    IF IsWrapped(term)
    THEN IsSubstring(SubSeq(term, 3, Len(term) - 2), text)
    ELSE IF endswith(term, "*")
    THEN \E w \in Words(text) : startswith(w, SubSeq(term, 1, Len(term) - 1))
    ELSE term \in Words(text)

\* terms are AND-combined; each term may match in any field of the scope
Matches(e, expr) ==
    LET terms == split(ExprBody(expr)) IN
    /\ ExprFields(expr) # {}
    /\ \A i \in 1..Len(terms) :
         \E f \in ExprFields(expr) : TermMatchesText(terms[i], e[f])

(***************************************************************************)
(* Primary store (frappe database) as api.search reads it.                 *)
(* A table maps a row's name (an autoincrement integer) to its row; a row  *)
(* with exists = FALSE was never inserted or has been deleted.             *)
(***************************************************************************)
\* frappe.utils.cstr on a row name
cstr(n) == <<"1", "2", "3", "4", "5">>[n]

RECURSIVE RowsDesc(_, _)
RowsDesc(table, S) ==
    IF S = {} THEN <<>>
    ELSE LET n == CHOOSE x \in S : \A y \in S : y <= x
         IN  <<[table[n] EXCEPT !.name = n]>> \o RowsDesc(table, S \ {n})

\* frappe.get_all(doctype, fields=[...], filters={"name": ("in", names)}),
\* in the default ordering (newest row first)
get_all(table, names) ==
    RowsDesc(table, {n \in DOMAIN table : table[n].exists /\ cstr(n) \in names})

(***************************************************************************)
(* api.search, lines 413-460: grouping and comment-to-parent indirection.  *)
(***************************************************************************)
EmptyDict == [k \in {} |-> <<>>]

\* dict.setdefault(k, []).append(e)
Put(g, k, e) ==
    IF k \in DOMAIN g THEN [g EXCEPT ![k] = Append(@, e)] ELSE g @@ (k :> <<e>>)

\* dict.get(k, [])
Get(g, k) == IF k \in DOMAIN g THEN g[k] ELSE <<>>

\* a hit's id is "<doctype>:<name>"
MakeId(doctype, name) == <<doctype, ":", name>>

\* d.id.split(":")
IdDoctype(id) == id[1]

IdName(id) == id[3]

\* lines 423-426: a hit on the entity itself
DirectEntry(d) ==
    [doctype |-> IdDoctype(d.id), name |-> IdName(d.id), title |-> d.title,
     content |-> d.content,
     project |-> d.payload.project, team |-> d.payload.team,
     via_comment |-> FALSE]

RECURSIVE PartitionKeepComments(_, _, _)
PartitionKeepComments(docs, cbd, gr) ==
    IF docs = <<>> THEN [comments_by_doctype |-> cbd, grouped_results |-> gr]
    ELSE LET d == Head(docs) IN
         IF IdDoctype(d.id) = "GP Comment"
         THEN PartitionKeepComments(Tail(docs),
                  Put(cbd, d.payload.reference_doctype, d),
                  Put(gr, IdDoctype(d.id), DirectEntry(d)))
         ELSE PartitionKeepComments(Tail(docs), cbd,
                  Put(gr, IdDoctype(d.id), DirectEntry(d)))

RECURSIVE Partition(_, _, _)
\* lines 415-426
Partition(docs, cbd, gr) ==
    IF docs = <<>> THEN [comments_by_doctype |-> cbd, grouped_results |-> gr]
    ELSE LET d == Head(docs) IN
         IF IdDoctype(d.id) = "GP Comment"
         THEN Partition(Tail(docs), Put(cbd, d.payload.reference_doctype, d), gr)
         ELSE Partition(Tail(docs), cbd, Put(gr, IdDoctype(d.id), DirectEntry(d)))

\* lines 428-429
ReferenceNames(cs) == {cs[i].payload.reference_name : i \in 1..Len(cs)}

CommentContentUnset(cs, name) == <<>>

\* lines 442-444 and 457-459: the last matching comment's content stays
CommentContent(cs, name) ==
    LET I == {i \in 1..Len(cs) : cs[i].payload.reference_name = name} IN
    IF I = {} THEN <<>> ELSE cs[CHOOSE i \in I : \A j \in I : j <= i].content

\* lines 437-444 and 453-459: the entry made for a parent row
ParentEntry(doctype, row, cs) ==
    [doctype |-> doctype, name |-> cstr(row.name), title |-> row.title,
     content |-> CommentContent(cs, cstr(row.name)),
     project |-> row.project, team |-> row.team, via_comment |-> TRUE]

RECURSIVE AddParentsFirst(_, _, _, _)
AddParentsFirst(gr, doctype, rows, cs) ==
    IF rows = <<>> THEN gr
    ELSE LET e == ParentEntry(doctype, Head(rows), cs)
             g == IF doctype \in DOMAIN gr
                  THEN [gr EXCEPT ![doctype] = <<e>> \o @]
                  ELSE gr @@ (doctype :> <<e>>)
         IN  AddParentsFirst(g, doctype, Tail(rows), cs)

RECURSIVE AddParents(_, _, _, _)
\* lines 431-445 and 447-460: one entry per row found, appended to the group
AddParents(gr, doctype, rows, cs) ==
    IF rows = <<>> THEN gr
    ELSE AddParents(Put(gr, doctype, ParentEntry(doctype, Head(rows), cs)),
                    doctype, Tail(rows), cs)

\* lines 413-460
Aggregate(docs, discussions, tasks) ==
    LET p == Partition(docs, EmptyDict, EmptyDict)
        dcs == Get(p.comments_by_doctype, "GP Discussion")
        tcs == Get(p.comments_by_doctype, "GP Task")
        g1 == AddParents(p.grouped_results, "GP Discussion",
                         get_all(discussions, ReferenceNames(dcs)), dcs)
    IN  AddParents(g1, "GP Task", get_all(tasks, ReferenceNames(tcs)), tcs)

(***************************************************************************)
(* Index backend and GameplanSearch, spec.md 3, 4.1 and 4.3.               *)
(* The index is a sequence of entries, newest first; availability is a     *)
(* flag of the backend.                                                    *)
(***************************************************************************)
\* fixed page size of the Query Engine
PageSize == 20

NoRef == ""

\* the raw hit the engine returns for an index entry
HitOf(e) ==
    [id |-> MakeId(e.doctype, e.name), title |-> e.title, content |-> e.content,
     payload |-> [reference_doctype |-> e.reference_doctype,
                  reference_name |-> e.reference_name,
                  project |-> e.project, team |-> e.team]]

\* the matching entries as hits, sort_by = "modified desc"
Hits(idx, expr) ==
    LET m == SelectSeq(idx, LAMBDA e : Matches(e, expr)) IN
    [i \in 1..Len(m) |-> HitOf(m[i])]

Page(hits, start) ==
    SubSeq(hits, start + 1,
           IF Len(hits) < start + PageSize THEN Len(hits) ELSE start + PageSize)

\* GameplanSearch.search(expr, start=..., sort_by="modified desc", ...) of
\* gameplan.search: rejects the empty-query marker before any backend call,
\* raises when the backend is unavailable, and otherwise returns the page
EngineSearch(idx, up, expr, start) ==
    IF ExprBody(expr) = EmptyMarker
    THEN [error |-> "InvalidQuery", calls |-> <<>>, docs |-> <<>>, total |-> 0]
    ELSE IF ~up
    THEN [error |-> "IndexUnavailable", calls |-> <<expr>>, docs |-> <<>>,
          total |-> 0]
    ELSE LET hits == Hits(idx, expr) IN
         [error |-> "none", calls |-> <<expr>>, docs |-> Page(hits, start),
          total |-> Len(hits)]

\* filters are AND-combined exact matches on entry fields
PassesFilters(e, filters) == \A f \in DOMAIN filters : e[f] = filters[f]

\* GameplanSearch.search(query, filters=...) of gameplan.search_sqlite: the
\* engine normalizes the raw text itself
SqliteEngineSearch(idx, up, query, filters) ==
    LET cleaned == clean_query(query)
        expr == SearchExpr(BuildQuery(cleaned))
    IN  IF cleaned = EmptyMarker
        THEN [error |-> "InvalidQuery", calls |-> <<>>, docs |-> <<>>, total |-> 0]
        ELSE IF ~up
        THEN [error |-> "IndexUnavailable", calls |-> <<expr>>, docs |-> <<>>,
              total |-> 0]
        ELSE LET hits == Hits(SelectSeq(idx, LAMBDA e : PassesFilters(e, filters)),
                              expr)
             IN  [error |-> "none", calls |-> <<expr>>, docs |-> Page(hits, 0),
                  total |-> Len(hits)]

\* GameplanSearch.get_filter_options() of gameplan.search_sqlite
EngineFilterOptions(idx, up) ==
    IF ~up THEN [error |-> "IndexUnavailable", options |-> EmptyDict]
    ELSE [error |-> "none",
          options |-> [f \in {"doctype", "project"} |->
                         {idx[i][f] : i \in 1..Len(idx)}]]

EngineIndexDocAppend(idx, up, entry) ==
    IF ~up THEN [raised |-> TRUE, idx |-> idx]
    ELSE [raised |-> FALSE, idx |-> <<entry>> \o idx]

\* GameplanSearch.index_doc(doc): upsert keyed by (doctype, name); raises
\* GameplanSearchIndexMissingError when the backend is unavailable
EngineIndexDoc(idx, up, entry) ==
    IF ~up THEN [raised |-> TRUE, idx |-> idx]
    ELSE [raised |-> FALSE,
          idx |-> <<entry>> \o SelectSeq(idx, LAMBDA e :
                      ~(e.doctype = entry.doctype /\ e.name = entry.name))]

\* GameplanSearch.remove_doc(doc): keyed delete, absent entry is a no-op
EngineRemoveDoc(idx, up, doctype, name) ==
    IF ~up THEN [raised |-> TRUE, idx |-> idx]
    ELSE [raised |-> FALSE,
          idx |-> SelectSeq(idx, LAMBDA e :
                      ~(e.doctype = doctype /\ e.name = name))]

(***************************************************************************)
(* The whitelisted read entry points of api.py.                            *)
(***************************************************************************)
NoResponse ==
    [op |-> "none", outcome |-> "ok", up |-> TRUE, query |-> <<>>, name |-> 0,
     sent |-> <<>>, docs |-> <<>>, results |-> EmptyDict, total |-> 0,
     options |-> EmptyDict, activities |-> {}, doc |-> <<>>]

searchSwallow(query, start, idx, up, discussions, tasks) ==
    LET expr == SearchExpr(BuildQuery(clean_query(query)))
        result == EngineSearch(idx, up, expr, start)
    IN  [NoResponse EXCEPT !.op = "search", !.up = up, !.query = query,
            !.sent = result.calls, !.docs = result.docs,
            !.results = Aggregate(result.docs, discussions, tasks),
            !.total = result.total]

\* api.search, lines 392-466
search(query, start, idx, up, discussions, tasks) ==
    LET expr == SearchExpr(BuildQuery(clean_query(query)))
        result == EngineSearch(idx, up, expr, start)
    IN  IF result.error # "none"
        THEN [NoResponse EXCEPT !.op = "search", !.up = up, !.query = query,
                 !.outcome = result.error, !.sent = result.calls]
        ELSE [NoResponse EXCEPT !.op = "search", !.up = up, !.query = query,
                 !.sent = result.calls, !.docs = result.docs,
                 !.results = Aggregate(result.docs, discussions, tasks),
                 !.total = result.total]

\* a filters argument is None, a mapping, or the JSON text of a mapping
NoFilters == [kind |-> "none", value |-> EmptyDict]

\* json.loads of the JSON text of a mapping
json_loads(text) == [kind |-> "dict", value |-> text.value]

\* api.search_sqlite, lines 478-491
search_sqlite(query, filters, idx, up) ==
    LET parsed == IF filters.kind = "str" THEN json_loads(filters) ELSE filters
        result == SqliteEngineSearch(idx, up, query, parsed.value)
    IN  IF result.error # "none"
        THEN [NoResponse EXCEPT !.op = "search_sqlite", !.up = up,
                 !.query = query, !.outcome = result.error, !.sent = result.calls]
        ELSE [NoResponse EXCEPT !.op = "search_sqlite", !.up = up,
                 !.query = query, !.sent = result.calls, !.docs = result.docs,
                 !.total = result.total]

\* api.get_search_filter_options, lines 494-500
get_search_filter_options(idx, up) ==
    LET result == EngineFilterOptions(idx, up) IN
    IF result.error # "none"
    THEN [NoResponse EXCEPT !.op = "get_search_filter_options", !.up = up,
             !.outcome = result.error]
    ELSE [NoResponse EXCEPT !.op = "get_search_filter_options", !.up = up,
             !.options = result.options]

(***************************************************************************)
(* GPTask document hooks, gp_task.py.                                      *)
(***************************************************************************)
\* what index_doc stores for a task
TaskEntry(doc) ==
    [doctype |-> "GP Task", name |-> cstr(doc.name), title |-> doc.title,
     content |-> doc.description, project |-> doc.project, team |-> doc.team,
     reference_doctype |-> NoRef, reference_name |-> NoRef]

\* Document.has_value_changed: TRUE for a document that was not saved before
has_value_changed(doc, prev, field) == ~prev.exists \/ doc[field] # prev[field]

\* lines 52-65: the fields whose change is logged as an activity
log_value_updates(doc, prev) ==
    {f \in {"title", "description", "status", "project"} :
        prev.exists /\ doc[f] # prev[f]}

update_search_indexNoCatch(doc, prev, idx, up) ==
    IF has_value_changed(doc, prev, "title")
         \/ has_value_changed(doc, prev, "description")
    THEN EngineIndexDoc(idx, up, TaskEntry(doc))
    ELSE [raised |-> FALSE, idx |-> idx]

update_search_indexAlways(doc, prev, idx, up) ==
    [raised |-> FALSE, idx |-> EngineIndexDoc(idx, up, TaskEntry(doc)).idx]

\* lines 67-73
update_search_index(doc, prev, idx, up) ==
    IF has_value_changed(doc, prev, "title")
         \/ has_value_changed(doc, prev, "description")
    THEN [raised |-> FALSE, idx |-> EngineIndexDoc(idx, up, TaskEntry(doc)).idx]
    ELSE [raised |-> FALSE, idx |-> idx]

\* lines 47-50; notify_mentions (HasMentions) writes notifications only
on_update(doc, prev, idx, up) ==
    LET r == update_search_index(doc, prev, idx, up) IN
    [raised |-> r.raised, idx |-> r.idx, activities |-> log_value_updates(doc, prev)]

\* lines 81-87; update_tasks_count writes the project's counter only
on_trash(doc, idx, up) ==
    [raised |-> FALSE, idx |-> EngineRemoveDoc(idx, up, "GP Task", cstr(doc.name)).idx]

\* lines 20-22; the taskid of lines 23-42 is not part of this state
before_insert(doc) ==
    IF doc.status = "" THEN [doc EXCEPT !.status = "Backlog"] ELSE doc

(***************************************************************************)
(* The taskid of GPTask.before_insert, lines 23-42, with the functions of  *)
(* Python, of re and of SQL that it computes with.                         *)
(***************************************************************************)
\* str.lower, on the characters the titles are written with
lower(c) ==
    CASE c = "A" -> "a" [] c = "B" -> "b" [] c = "P" -> "p" [] OTHER -> c

DigitChars == <<"0", "1", "2", "3", "4", "5", "6", "7", "8", "9">>

IsDigit(c) == \E d \in 1..Len(DigitChars) : DigitChars[d] = c

\* the class [\s\-] of line 138
IsSpaceOrDash(c) == c \in {" ", "-"}

\* the class \w of line 140, which holds the underscore
IsWordChar(c) == c \in {"a", "b", "p", "_"} \/ IsDigit(c)

\* lines 134-141
slugify(text) ==
    LET lowered == [i \in 1..Len(text) |-> lower(text[i])]
        \* re.sub(r'[\s\-]+', '_', text): one underscore for each run
        joined == [i \in 1..Len(lowered) |->
                     IF ~IsSpaceOrDash(lowered[i]) THEN lowered[i]
                     ELSE IF i > 1 /\ IsSpaceOrDash(lowered[i - 1]) THEN ""
                          ELSE "_"]
    IN  SelectSeq(joined, LAMBDA c : c # "" /\ IsWordChar(c))

\* SQL: s LIKE pattern, where % stands for any characters and _ for one
RECURSIVE LIKE(_, _)
LIKE(s, pattern) ==
    IF pattern = <<>> THEN s = <<>>
    ELSE IF Head(pattern) = "%"
         THEN \E k \in 0..Len(s) : LIKE(SubSeq(s, k + 1, Len(s)), Tail(pattern))
         ELSE /\ s # <<>>
              /\ Head(pattern) = "_" \/ Head(pattern) = Head(s)
              /\ LIKE(Tail(s), Tail(pattern))

\* SQL: SUBSTRING_INDEX(s, delim, count) for count < 0: what follows the
\* -count'th delimiter from the right, all of s when it has fewer
SUBSTRING_INDEX(s, delim, count) ==
    LET at == {i \in 1..Len(s) : s[i] = delim} IN
    IF Cardinality(at) < -count THEN s
    ELSE LET cut == CHOOSE i \in at : Cardinality({j \in at : j >= i}) = -count
         IN  SubSeq(s, cut + 1, Len(s))

\* the value of a text of digits
RECURSIVE DigitsValue(_)
DigitsValue(s) ==
    IF s = <<>> THEN 0
    ELSE 10 * DigitsValue(SubSeq(s, 1, Len(s) - 1))
           + (CHOOSE d \in 1..Len(DigitChars) : DigitChars[d] = s[Len(s)]) - 1

\* SQL: CAST(s AS UNSIGNED): the value of the leading digits, 0 without any
CAST_UNSIGNED(s) ==
    LET n == CHOOSE k \in 0..Len(s) :
                 /\ \A i \in 1..k : IsDigit(s[i])
                 /\ k < Len(s) => ~IsDigit(s[k + 1])
    IN  DigitsValue(SubSeq(s, 1, n))

\* Python: str(n) of a natural number
RECURSIVE str(_)
str(n) ==
    IF n < 10 THEN <<DigitChars[n + 1]>>
    ELSE str(n \div 10) \o <<DigitChars[(n % 10) + 1]>>

\* Python: s.zfill(width)
zfill(s, width) ==
    IF Len(s) >= width THEN s
    ELSE [i \in 1..(width - Len(s)) |-> "0"] \o s

\* the number the SELECT of lines 31-37 takes from a taskid
SelectedNumber(taskid) ==
    CAST_UNSIGNED(SUBSTRING_INDEX(SUBSTRING_INDEX(taskid, "_", -2), "_", -1))

\* lines 31-37: the rows of the SELECT over the taskid column: the highest
\* selected number of the taskids LIKE the pattern, no row when none is
last_number(column, pattern) ==
    LET rows == {i \in 1..Len(column) : LIKE(column[i], pattern)} IN
    IF rows = {} THEN <<>>
    ELSE <<CHOOSE m \in {SelectedNumber(column[i]) : i \in rows} :
               \A i \in rows : SelectedNumber(column[i]) <= m>>

\* lines 27-42: the taskid given to a task of a project that has a code
before_insert_taskid(project_code, title, column) ==
    LET clean_project == slugify(project_code)
        clean_title == slugify(title)
        last == last_number(column,
                            clean_project \o <<"_", "%", "_">> \o clean_title)
        next_number == IF last # <<>> THEN last[1] + 1 ELSE 1
        padded_number == zfill(str(next_number), 3)
    IN  clean_project \o <<"_">> \o padded_number \o <<"_">> \o clean_title

(***************************************************************************)
(* State.                                                                  *)
(***************************************************************************)
VARIABLES
    tasks,        \* tabGP Task: name -> row
    discussions,  \* tabGP Discussion: name -> row
    comments,     \* tabGP Comment: name -> row
    index,        \* the search index: entries, most recently indexed first
    indexUp,      \* whether the index backend is available
    response,     \* outcome of the latest request
    inflight,     \* saves in flight: request -> its position and documents
    taskids,      \* the taskid column of tabGP Task, in order of insertion
    pending       \* inserts in flight: request -> the taskid it was assigned

\* the requests in flight
requestVars == <<inflight, taskids, pending>>

vars == <<tasks, discussions, comments, index, indexUp, response, inflight,
          taskids, pending>>

TaskNames == {1}

DiscussionNames == {1}

CommentNames == 1..MaxComments

NoTask(n) ==
    [name |-> n, exists |-> FALSE, trashed |-> FALSE, title |-> <<>>,
     description |-> <<>>, status |-> "", project |-> "P1", team |-> "T1"]

NoComment(n) ==
    [name |-> n, exists |-> FALSE, trashed |-> FALSE, content |-> <<>>,
     reference_doctype |-> NoRef, reference_name |-> NoRef, project |-> "P1",
     team |-> "T1"]

TheDiscussion(n) ==
    [name |-> n, exists |-> TRUE, trashed |-> FALSE, title |-> <<"b">>,
     content |-> <<"b">>, project |-> "P1", team |-> "T1"]

\* what index_doc stores for a discussion and for a comment (spec.md 3)
DiscussionEntry(row) ==
    [doctype |-> "GP Discussion", name |-> cstr(row.name), title |-> row.title,
     content |-> row.content, project |-> row.project, team |-> row.team,
     reference_doctype |-> NoRef, reference_name |-> NoRef]

CommentEntry(row) ==
    [doctype |-> "GP Comment", name |-> cstr(row.name), title |-> <<>>,
     content |-> row.content, project |-> row.project, team |-> row.team,
     reference_doctype |-> row.reference_doctype,
     reference_name |-> row.reference_name]

\* the next autoincrement name of a table
NextName(table) ==
    {n \in DOMAIN table :
        /\ ~table[n].exists /\ ~table[n].trashed
        /\ \A m \in DOMAIN table : m < n => (table[m].exists \/ table[m].trashed)}

\* the requests that can be in flight at once
Requests == {1, 2}

IdleSave == [pc |-> "idle", prev |-> NoTask(1), doc |-> NoTask(1)]

NoTaskid == <<>>

\* no request in flight, no taskid assigned
NoRequests ==
    /\ inflight = [p \in Requests |-> IdleSave]
    /\ taskids = <<>>
    /\ pending = [p \in Requests |-> NoTaskid]

MainTexts == {<<"a">>, <<"b">>}

MainQueries == {<<"a">>, <<"a", " ", "b">>, <<" ">>}

MainFilters ==
    {NoFilters,
     [kind |-> "dict", value |-> ("doctype" :> "GP Task")],
     [kind |-> "str", value |-> ("doctype" :> "GP Task")]}

Init ==
    /\ tasks = [n \in TaskNames |-> NoTask(n)]
    /\ discussions = [n \in DiscussionNames |-> TheDiscussion(n)]
    /\ comments = [n \in CommentNames |-> NoComment(n)]
    /\ index = <<DiscussionEntry(TheDiscussion(1))>>
    /\ indexUp = TRUE
    /\ response = NoResponse
    /\ NoRequests

(***************************************************************************)
(* Writes: a task is inserted, saved or deleted through the document       *)
(* framework, which runs the GPTask hooks inside the write's transaction:  *)
(* an exception leaving a hook rolls the write back.                       *)
(***************************************************************************)
WriteResponse(op, doc, r, up) ==
    [NoResponse EXCEPT !.op = op, !.up = up, !.name = doc.name, !.doc = doc,
        !.outcome = IF r.raised THEN "error" ELSE "ok",
        !.activities = IF r.raised THEN {} ELSE r.activities]

InsertTask(title, description, status) ==
    /\ \E n \in NextName(tasks) :
         LET doc == before_insert(
                      [NoTask(n) EXCEPT !.exists = TRUE, !.title = title,
                          !.description = description, !.status = status])
             r == on_update(doc, tasks[n], index, indexUp)
         IN  /\ tasks' = IF r.raised THEN tasks ELSE [tasks EXCEPT ![n] = doc]
             /\ index' = IF r.raised THEN index ELSE r.idx
             /\ response' = WriteResponse("insert", doc, r, indexUp)
    /\ UNCHANGED <<requestVars, discussions, comments, indexUp>>

SaveTask(n, title, description, status) ==
    /\ tasks[n].exists
    /\ LET doc == [tasks[n] EXCEPT !.title = title, !.description = description,
                      !.status = status]
           r == on_update(doc, tasks[n], index, indexUp)
       IN  /\ tasks' = IF r.raised THEN tasks ELSE [tasks EXCEPT ![n] = doc]
           /\ index' = IF r.raised THEN index ELSE r.idx
           /\ response' = WriteResponse("save", doc, r, indexUp)
    /\ UNCHANGED <<requestVars, discussions, comments, indexUp>>

\* gp_task.py line 15: the comments of a deleted task are deleted with it
CascadedComments(n) ==
    {c \in CommentNames :
        /\ comments[c].exists
        /\ comments[c].reference_doctype = "GP Task"
        /\ comments[c].reference_name = cstr(n)}

\* the index after the cascaded comments' own removal (absorbed when the
\* backend is unavailable, spec.md 4.1)
RemoveComments(idx, up, C) ==
    IF ~up THEN idx
    ELSE SelectSeq(idx, LAMBDA e :
             ~(e.doctype = "GP Comment" /\ \E c \in C : e.name = cstr(c)))

DeleteTask(n) ==
    /\ tasks[n].exists
    /\ LET r == on_trash(tasks[n], index, indexUp)
           gone == [NoTask(n) EXCEPT !.trashed = TRUE]
           C == CascadedComments(n)
       IN  /\ tasks' = IF r.raised THEN tasks ELSE [tasks EXCEPT ![n] = gone]
           /\ comments' = IF r.raised THEN comments
                          ELSE [c \in CommentNames |->
                                  IF c \in C
                                  THEN [NoComment(c) EXCEPT !.trashed = TRUE]
                                  ELSE comments[c]]
           /\ index' = IF r.raised THEN index ELSE RemoveComments(r.idx, indexUp, C)
           /\ response' = WriteResponse("delete", gone,
                              [raised |-> r.raised, activities |-> {}], indexUp)
    /\ UNCHANGED <<requestVars, discussions, indexUp>>

\* a comment is posted on a task or a discussion and indexed with its
\* parent's reference (spec.md 4.1 and 6)
AddComment(doctype, parent, content) ==
    /\ \/ doctype = "GP Task" /\ parent \in TaskNames /\ tasks[parent].exists
       \/ doctype = "GP Discussion" /\ parent \in DiscussionNames
            /\ discussions[parent].exists
    /\ \E c \in NextName(comments) :
         LET row == [NoComment(c) EXCEPT !.exists = TRUE, !.content = content,
                        !.reference_doctype = doctype,
                        !.reference_name = cstr(parent)]
         IN  /\ comments' = [comments EXCEPT ![c] = row]
             /\ index' = EngineIndexDoc(index, indexUp, CommentEntry(row)).idx
             /\ response' = [NoResponse EXCEPT !.op = "comment", !.up = indexUp,
                                !.name = c]
    /\ UNCHANGED <<requestVars, tasks, discussions, indexUp>>

(***************************************************************************)
(* The index backend goes away and comes back, keeping its entries.        *)
(***************************************************************************)
IndexGoesDown ==
    /\ indexUp
    /\ indexUp' = FALSE
    /\ UNCHANGED <<requestVars, tasks, discussions, comments, index, response>>

IndexComesUp ==
    /\ ~indexUp
    /\ indexUp' = TRUE
    /\ UNCHANGED <<requestVars, tasks, discussions, comments, index, response>>

(***************************************************************************)
(* Reads.                                                                  *)
(***************************************************************************)
Search(query, start) ==
    /\ response' = search(query, start, index, indexUp, discussions, tasks)
    /\ UNCHANGED <<requestVars, tasks, discussions, comments, index, indexUp>>

SearchSqlite(query, filters) ==
    /\ response' = search_sqlite(query, filters, index, indexUp)
    /\ UNCHANGED <<requestVars, tasks, discussions, comments, index, indexUp>>

GetSearchFilterOptions ==
    /\ response' = get_search_filter_options(index, indexUp)
    /\ UNCHANGED <<requestVars, tasks, discussions, comments, index, indexUp>>

Next ==
    \/ \E t, d \in MainTexts : InsertTask(t, d, "")
    \/ \E n \in TaskNames, t, d \in MainTexts, s \in {"Backlog", "Done"} :
         SaveTask(n, t, d, s)
    \/ \E n \in TaskNames : DeleteTask(n)
    \/ \E p \in TaskNames : AddComment("GP Task", p, <<"a">>)
    \/ \E p \in DiscussionNames : AddComment("GP Discussion", p, <<"a">>)
    \/ IndexGoesDown
    \/ IndexComesUp
    \/ \E q \in MainQueries, start \in {0, 1} : Search(q, start)
    \/ \E q \in MainQueries, f \in MainFilters : SearchSqlite(q, f)
    \/ GetSearchFilterOptions

Spec == Init /\ [][Next]_vars

(***************************************************************************)
(* SpecAgg: api.search over every small index and primary store.           *)
(* The index holds up to MaxHits entries in any order of recency, all      *)
(* matching the query "a"; parents may or may not be in the primary store. *)
(***************************************************************************)
AggTaskNames == {1, 2}

AggEntry(doctype, name, refDoctype, refName, content) ==
    [doctype |-> doctype, name |-> name, title |-> <<>>, content |-> content,
     project |-> "P1", team |-> "T1", reference_doctype |-> refDoctype,
     reference_name |-> refName]

AggParents == {<<"GP Task", "1">>, <<"GP Task", "2">>, <<"GP Discussion", "1">>}

AggEntries ==
    {AggEntry(p[1], p[2], NoRef, NoRef, <<"a", " ", "o", p[2]>>) : p \in AggParents}
    \cup {AggEntry("GP Comment", c, p[1], p[2], <<"a", " ", "c", c>>) :
            c \in {"1", "2"}, p \in AggParents}

AggIndexes ==
    {s \in UNION {[1..n -> AggEntries] : n \in 0..MaxHits} :
        \A i, j \in 1..Len(s) :
            (s[i].doctype = s[j].doctype /\ s[i].name = s[j].name) => i = j}

InitAgg ==
    /\ \E S \in SUBSET AggTaskNames :
         tasks = [n \in AggTaskNames |->
                    IF n \in S
                    THEN [NoTask(n) EXCEPT !.exists = TRUE, !.title = <<"t">>,
                             !.description = <<"a">>, !.status = "Backlog"]
                    ELSE [NoTask(n) EXCEPT !.trashed = TRUE]]
    /\ \E S \in SUBSET DiscussionNames :
         discussions = [n \in DiscussionNames |->
                          [TheDiscussion(n) EXCEPT !.exists = (n \in S),
                                                   !.trashed = (n \notin S)]]
    /\ comments = [n \in CommentNames |-> NoComment(n)]
    /\ index \in AggIndexes
    /\ indexUp = TRUE
    /\ response = NoResponse
    /\ NoRequests

AggSearch == response.op = "none" /\ Search(<<"a">>, 0)

NextAgg == AggSearch

SpecAgg == InitAgg /\ [][NextAgg]_vars

(***************************************************************************)
(* SpecNorm: api.search for every raw query of up to MaxQueryLen           *)
(* characters against an index of one entry.                               *)
(***************************************************************************)
Alphabet == {"a", "b", " ", "*", "@"}

RawQueries == UNION {[1..n -> Alphabet] : n \in 0..MaxQueryLen}

NormTexts == {<<>>, <<"a">>, <<"b", "a">>, <<"a", " ", "b">>}

InitNorm ==
    /\ tasks = [n \in TaskNames |-> NoTask(n)]
    /\ discussions = [n \in DiscussionNames |-> TheDiscussion(n)]
    /\ comments = [n \in CommentNames |-> NoComment(n)]
    /\ \E t, c \in NormTexts :
         index = <<[AggEntry("GP Discussion", "1", NoRef, NoRef, c)
                      EXCEPT !.title = t]>>
    /\ indexUp = TRUE
    /\ response = NoResponse
    /\ NoRequests

NormSearch == response.op = "none" /\ \E q \in RawQueries : Search(q, 0)

NextNorm == NormSearch

SpecNorm == InitNorm /\ [][NextNorm]_vars

(***************************************************************************)
(* SpecRace: saves of one task by two requests, step by step.  A save      *)
(* reads the document (with which has_value_changed compares), writes the  *)
(* row, then runs on_update; the steps of the two requests interleave      *)
(* with each other, with the task's deletion and with outages.             *)
(***************************************************************************)
\* frappe.get_doc, the change of the title, and the start of doc.save()
RaceLoad(p, n, title) ==
    /\ inflight[p].pc = "idle"
    /\ tasks[n].exists
    /\ inflight' = [inflight EXCEPT ![p] =
                       [pc |-> "loaded", prev |-> tasks[n],
                        doc |-> [tasks[n] EXCEPT !.title = title]]]
    /\ UNCHANGED <<tasks, discussions, comments, index, indexUp, response,
                   taskids, pending>>

\* the row is written: the later writer's values stay; a row deleted in
\* the meantime is not written back
RaceWrite(p) ==
    /\ inflight[p].pc = "loaded"
    /\ LET doc == inflight[p].doc IN
         tasks' = IF tasks[doc.name].exists
                  THEN [tasks EXCEPT ![doc.name] = doc]
                  ELSE tasks
    /\ inflight' = [inflight EXCEPT ![p].pc = "written"]
    /\ UNCHANGED <<discussions, comments, index, indexUp, response, taskids,
                   pending>>

\* on_update of the saved document
RaceIndex(p) ==
    /\ inflight[p].pc = "written"
    /\ LET doc == inflight[p].doc
           r == on_update(doc, inflight[p].prev, index, indexUp)
       IN  /\ index' = r.idx
           /\ response' = WriteResponse("save", doc, r, indexUp)
    /\ inflight' = [inflight EXCEPT ![p] = IdleSave]
    /\ UNCHANGED <<tasks, discussions, comments, indexUp, taskids, pending>>

NextRace ==
    \/ \E t, d \in MainTexts : InsertTask(t, d, "")
    \/ \E p \in Requests, n \in TaskNames, t \in MainTexts : RaceLoad(p, n, t)
    \/ \E p \in Requests : RaceWrite(p)
    \/ \E p \in Requests : RaceIndex(p)
    \/ \E n \in TaskNames : DeleteTask(n)
    \/ IndexGoesDown
    \/ IndexComesUp

SpecRace == Init /\ [][NextRace]_vars

(***************************************************************************)
(* SpecIds: inserts of tasks into one project by two requests.  An insert  *)
(* runs before_insert, which reads the taskid column and assigns the       *)
(* taskid, and then writes its row; between the two the other request may  *)
(* do either.  Of the rows only the taskid column is kept.                 *)
(***************************************************************************)
\* the code of the project of the tasks
ProjectCode == <<"P">>

IdTitles == {<<"a">>, <<"A", "!">>, <<"b", "-", "a">>, <<"a", " ", "2">>}

\* before_insert of a task with the title
BeginInsert(p, title) ==
    /\ pending[p] = NoTaskid
    /\ Len(taskids) + Cardinality({q \in Requests : pending[q] # NoTaskid})
           < MaxInserts
    /\ pending' = [pending EXCEPT ![p] =
                      before_insert_taskid(ProjectCode, title, taskids)]
    /\ UNCHANGED <<tasks, discussions, comments, index, indexUp, response,
                   inflight, taskids>>

\* the row is written
CommitInsert(p) ==
    /\ pending[p] # NoTaskid
    /\ taskids' = Append(taskids, pending[p])
    /\ pending' = [pending EXCEPT ![p] = NoTaskid]
    /\ UNCHANGED <<tasks, discussions, comments, index, indexUp, response,
                   inflight>>

NextIds ==
    \/ \E p \in Requests, t \in IdTitles : BeginInsert(p, t)
    \/ \E p \in Requests : CommitInsert(p)

SpecIds == Init /\ [][NextIds]_vars

(***************************************************************************)
(* Vocabulary of the properties.                                           *)
(***************************************************************************)
ParentDoctypes == {"GP Discussion", "GP Task"}

IsSearchResult == response.op = "search" /\ response.outcome = "ok"

\* positions of the raw hits on the entity itself
DirectHitsOn(doctype, name) ==
    {i \in 1..Len(response.docs) : response.docs[i].id = MakeId(doctype, name)}

\* positions of the raw hits on comments of the entity
CommentHitsOn(doctype, name) ==
    {i \in 1..Len(response.docs) :
        /\ IdDoctype(response.docs[i].id) = "GP Comment"
        /\ response.docs[i].payload.reference_doctype = doctype
        /\ response.docs[i].payload.reference_name = name}

\* positions of the entity's entries in its group of the results
EntriesOf(doctype, name) ==
    {i \in 1..Len(Get(response.results, doctype)) :
        response.results[doctype][i].name = name}

InPrimaryStore(doctype, name) ==
    IF doctype = "GP Task"
    THEN \E n \in DOMAIN tasks : tasks[n].exists /\ cstr(n) = name
    ELSE \E n \in DOMAIN discussions : discussions[n].exists /\ cstr(n) = name

ParentKeys == {<<dt, cstr(n)>> : dt \in ParentDoctypes, n \in 1..2}

IsBlank(q) == \A i \in 1..Len(q) : q[i] = " "

Tokens(q) == split(clean_query(q))

(***************************************************************************)
(* C1. De-duplication: an entity with both a direct hit and a hit on one   *)
(* of its comments has exactly one entry in the grouped results, the       *)
(* direct one (not via_comment, its own content), in whatever order the    *)
(* hits came.                                                              *)
(***************************************************************************)
C1_Deduplicated ==
    IsSearchResult =>
        \A p \in ParentKeys :
            (DirectHitsOn(p[1], p[2]) # {} /\ CommentHitsOn(p[1], p[2]) # {}) =>
                /\ Cardinality(EntriesOf(p[1], p[2])) = 1
                /\ \A i \in EntriesOf(p[1], p[2]) :
                     /\ ~response.results[p[1]][i].via_comment
                     /\ \E k \in DirectHitsOn(p[1], p[2]) :
                          response.results[p[1]][i].content = response.docs[k].content

(***************************************************************************)
(* C2. Indirection: a comment hit whose parent is in the primary store and *)
(* has no direct hit yields exactly one entry for the parent, under the    *)
(* parent's doctype, marked via_comment, with the content of one of the    *)
(* matching comments on that parent.                                       *)
(***************************************************************************)
C2_Indirection ==
    IsSearchResult =>
        \A p \in ParentKeys :
            (/\ CommentHitsOn(p[1], p[2]) # {}
             /\ DirectHitsOn(p[1], p[2]) = {}
             /\ InPrimaryStore(p[1], p[2])) =>
                /\ Cardinality(EntriesOf(p[1], p[2])) = 1
                /\ \A i \in EntriesOf(p[1], p[2]) :
                     /\ response.results[p[1]][i].doctype = p[1]
                     /\ response.results[p[1]][i].via_comment
                     /\ \E k \in CommentHitsOn(p[1], p[2]) :
                          response.results[p[1]][i].content = response.docs[k].content

\* two comments of one parent matched, the parent itself did not
C2_Witness ==
    /\ IsSearchResult
    /\ \E p \in ParentKeys :
         /\ Cardinality(CommentHitsOn(p[1], p[2])) = 2
         /\ DirectHitsOn(p[1], p[2]) = {}
         /\ InPrimaryStore(p[1], p[2])

(***************************************************************************)
(* C3. The grouped results have no "GP Comment" group and no entry whose   *)
(* doctype is GP Comment.                                                  *)
(***************************************************************************)
C3_NoCommentGroup ==
    response.op = "search" =>
        /\ "GP Comment" \notin DOMAIN response.results
        /\ \A dt \in DOMAIN response.results :
             \A i \in 1..Len(response.results[dt]) :
                 response.results[dt][i].doctype # "GP Comment"

\* a comment was among the raw hits
C3_Witness ==
    /\ IsSearchResult
    /\ \E i \in 1..Len(response.docs) : IdDoctype(response.docs[i].id) = "GP Comment"

(***************************************************************************)
(* C10. Ordering: in each group the direct hits keep the order in which    *)
(* the backend returned them, and every entry made from a comment hit      *)
(* comes after all direct hits of the group.                               *)
(***************************************************************************)
DirectDocsOf(doctype) ==
    LET m == SelectSeq(response.docs, LAMBDA d : IdDoctype(d.id) = doctype) IN
    [i \in 1..Len(m) |-> DirectEntry(m[i])]

C10_Ordering ==
    IsSearchResult =>
        \A dt \in DOMAIN response.results \cup ParentDoctypes :
            LET g == Get(response.results, dt) IN
            /\ SelectSeq(g, LAMBDA e : ~e.via_comment) = DirectDocsOf(dt)
            /\ \A i, j \in 1..Len(g) :
                 (g[i].via_comment /\ ~g[j].via_comment) => j < i

\* a group with two direct hits and an entry made from a comment hit
C10_Witness ==
    /\ IsSearchResult
    /\ \E dt \in DOMAIN response.results :
         /\ Len(DirectDocsOf(dt)) = 2
         /\ \E i \in 1..Len(response.results[dt]) :
              response.results[dt][i].via_comment

(***************************************************************************)
(* C7. Empty query rejection: an empty or whitespace-only query makes      *)
(* search fail with InvalidQuery, and no search call reaches the backend.  *)
(***************************************************************************)
C7_EmptyQueryRejected ==
    (response.op = "search" /\ IsBlank(response.query)) =>
        /\ response.outcome = "InvalidQuery"
        /\ response.sent = <<>>

(***************************************************************************)
(* C8. Single-token policy: a cleaned query of exactly one token is sent   *)
(* as that token with one "*" appended when it did not end in "*", and     *)
(* unchanged when it did; rewriting the rewritten token changes nothing;   *)
(* the expression is scoped to title|content.                              *)
(***************************************************************************)
C8_SingleToken ==
    (/\ response.op = "search"
     /\ Len(Tokens(response.query)) = 1
     /\ Tokens(response.query)[1] # <<>>) =>
        LET tok == Tokens(response.query)[1]
            out == IF endswith(tok, "*") THEN tok ELSE Append(tok, "*")
        IN  /\ Len(response.sent) = 1
            /\ response.sent[1] = FieldScope \o out \o <<")">>
            /\ BuildQuery(out) = out

\* a token that already ended in "*" was sent unchanged and found the entry
C8_Witness ==
    /\ response.op = "search"
    /\ Tokens(response.query) = <<<<"b", "*">>>>
    /\ response.sent = <<SearchExpr(<<"b", "*">>)>>
    /\ response.docs # <<>>

(***************************************************************************)
(* C9. Multi-token policy: with more than one token every token is sent    *)
(* wrapped as a substring wildcard, none with the trailing "*" of the      *)
(* single-token policy, and an entry is returned exactly when every token  *)
(* occurs somewhere in its title or content.                               *)
(***************************************************************************)
C9_MultiToken ==
    (response.op = "search" /\ Len(Tokens(response.query)) > 1) =>
        LET toks == Tokens(response.query)
            terms == split(ExprBody(response.sent[1]))
        IN  /\ Len(response.sent) = 1
            /\ startswith(response.sent[1], FieldScope)
            /\ Len(terms) = Len(toks)
            /\ \A i \in 1..Len(toks) : terms[i] = <<"%", "%">> \o toks[i] \o <<"%", "%">>
            /\ \A i \in 1..Len(index) :
                 (\E k \in 1..Len(response.docs) :
                     response.docs[k].id = MakeId(index[i].doctype, index[i].name))
                 <=> (\A t \in 1..Len(toks) :
                        \/ IsSubstring(toks[t], index[i].title)
                        \/ IsSubstring(toks[t], index[i].content))

\* two tokens of which the entry holds only one: no hit
C9_Witness ==
    /\ response.op = "search"
    /\ Tokens(response.query) = <<<<"b">>, <<"a">>>>
    /\ index[1].title = <<>> /\ index[1].content = <<"a">>
    /\ response.outcome = "ok" /\ response.docs = <<>>

(***************************************************************************)
(* C4. Write-path degradation: with the index backend unavailable, saving  *)
(* and deleting a task complete without raising, and the primary store     *)
(* holds what the write put there.                                         *)
(***************************************************************************)
C4_WriteDegrades ==
    (response.op \in {"insert", "save", "delete"} /\ ~response.up) =>
        /\ response.outcome = "ok"
        /\ tasks[response.name] = response.doc

\* a save that changed the title went through while the backend was down
C4_Witness ==
    /\ response.op = "save" /\ ~response.up
    /\ "title" \in response.activities
    /\ tasks[response.name] = response.doc

(***************************************************************************)
(* C5. Read-path unavailability: with the index backend unavailable,       *)
(* search, search_sqlite and get_search_filter_options end in an error     *)
(* that reaches the caller, never in a successful (empty) result.          *)
(***************************************************************************)
ReadOps == {"search", "search_sqlite", "get_search_filter_options"}

C5_ReadUnavailable ==
    (response.op \in ReadOps /\ ~response.up) =>
        /\ response.outcome \in {"IndexUnavailable", "InvalidQuery"}
        /\ response.outcome = "InvalidQuery" =>
             (response.op = "search_sqlite" /\ IsBlank(response.query))
        /\ response.docs = <<>> /\ response.results = EmptyDict
        /\ response.options = EmptyDict

\* a search for a word the index holds failed while the backend was down
C5_Witness ==
    /\ response.op = "search" /\ ~response.up
    /\ response.outcome = "IndexUnavailable"
    /\ \E i \in 1..Len(index) : Matches(index[i], response.sent[1])

(***************************************************************************)
(* C6. Deletion: no search returns the id of a task that has been deleted, *)
(* whatever availability changes, saves and deletes came before.           *)
(***************************************************************************)
C6_DeletedNeverReturned ==
    IsSearchResult =>
        \A i \in 1..Len(Get(response.results, "GP Task")) :
            InPrimaryStore("GP Task", response.results["GP Task"][i].name)

(***************************************************************************)
(* C11. Index key uniqueness and idempotence: after any saves and deletes  *)
(* of a task, two racing saves included, the index holds at most one       *)
(* entry per (doctype, name); and a save that indexes the task with the    *)
(* title and description its newest entry already has leaves the index     *)
(* and the results of every query as they were.                            *)
(***************************************************************************)
\* the request is about to run on_update and index its document
IndexesAgain(p) ==
    /\ inflight[p].pc = "written"
    /\ indexUp
    /\ has_value_changed(inflight[p].doc, inflight[p].prev, "title")
    /\ index # <<>> /\ index[1] = TaskEntry(inflight[p].doc)

C12_GatedOnSave ==
    [][(/\ response'.op = "save"
        /\ \A n \in TaskNames :
              /\ tasks'[n].title = tasks[n].title
              /\ tasks'[n].description = tasks[n].description)
          => index' = index]_vars

\* a save changed the status only, with the backend available, of a task
\* whose entry is not the newest of the index
C12_Witness ==
    /\ response.op = "save" /\ response.up /\ response.outcome = "ok"
    /\ response.activities = {"status"}
    /\ tasks[response.name] = response.doc
    /\ \E i \in 2..Len(index) : index[i] = TaskEntry(response.doc)

(***************************************************************************)
(* C13. Task id assignment: the taskid that before_insert assigns carries  *)
(* a number one above the highest already used for the same project slug   *)
(* and title slug, so that after any inserts, interleaved or not, no two   *)
(* tasks share a taskid.                                                   *)
(***************************************************************************)
C13_TaskidsDistinct ==
    \A i, j \in 1..Len(taskids) : taskids[i] = taskids[j] => i = j

====
